---------------------------- MODULE Spec2Model ----------------------------
(***************************************************************************)
(* Model of the PIMS import pipeline (pims/importer/importer.py):          *)
(* FileImporter.run with deploy_spatial, deploy_histogram, the file        *)
(* helpers mkdir / move / mksymlink, the observer fan-out notify, and      *)
(* import_collection with its synchronous wait on a Celery task group.     *)
(*                                                                         *)
(* Control points: pc names the notify call the importer is about to make. *)
(* One action = that notify call plus the code that follows it up to the   *)
(* next notify call (or up to the blocking r.get()).                        *)
(*                                                                         *)
(* Specifications:                                                         *)
(*   Spec                one import, with its observers and child tasks    *)
(*   SpecCheckIntegrity  Image.check_integrity (pims/files/image.py)       *)
(*   SpecConcurrent      several imports on one file root                  *)
(*   SpecHistogram       a histogram request (pims/api/histograms.py)      *)
(*   SpecPyramid         the normalized pyramid of an image                *)
(*   SpecMimetype        get_best_mimetype (pims/api/utils/mimetype.py)    *)
(*   SpecImageParameter  parse_intensity_bounds and get_zslice_indexes     *)
(***************************************************************************)
EXTENDS Integers, Sequences, FiniteSets, TLC

(***************************************************************************)
(* Bounds of the model.                                                    *)
(***************************************************************************)
\* observers registered on the importer
MaxObservers == 2
\* children found in an extracted collection
MaxChildren == 2
\* worker slots of the pool
MaxPool == 2
\* Celery tasks created in all (by the import and by its child archives)
MaxTasks == MaxChildren
\* required attributes of an image that check_integrity goes through
MaxAttributes == 4
\* imports running at the same time
MaxImporters == 2
\* names the unique name generator draws from
MaxNames == 2
\* significant bits of an image whose histogram is requested
MaxBits == 2
\* count held by one bin of a raw histogram
MaxCount == 1
\* width and height of an image whose normalized pyramid is synthesized
MaxDim == 8
\* the minimum tier dimension of the normalized pyramid
MaxMinTierDim == 4
\* entries of an Accept header
MaxAccept == 2
\* weights (q) an entry of an Accept header can carry, as ranks 0..MaxWeight
MaxWeight == 2
\* output channels of a request
MaxChannels == 2
\* length of a list of intensities given with a request
MaxIntensities == 2
\* focal planes of an image
MaxDepth == 4
\* z-slices named by a request
MaxPlanes == 2

(***************************************************************************)
(* Paths.  A path is <<stem, extension>>.                                   *)
(***************************************************************************)
NoPath == <<"None", "">>
PendingFile == <<"pending_file", "">>
UploadDir == <<"upload_dir", "">>
UploadFile == <<"upload_dir/name", "">>
ProcessedDir == <<"processed", "">>
ExtractedDir == <<"processed/extracted", "">>
HistogramFile == <<"processed/histogram", "">>

OriginalFile(id) == <<"processed/original", id>>

SpatialFile(id) == <<"processed/spatial", id>>

(***************************************************************************)
(* Formats, as far as the importer reads them: get_identifier, whether the *)
(* format is the format of an archive, is_spatial, need_conversion and the *)
(* identifier of conversion_format.                                        *)
(***************************************************************************)
NoFormat ==
    [id |-> "None", archive |-> FALSE, spatial |-> FALSE,
     need_conversion |-> FALSE, conversion |-> "None"]

ImageFormats ==
    { [id |-> "PYRTIFF", archive |-> FALSE, spatial |-> TRUE,
       need_conversion |-> FALSE, conversion |-> "None"],
      [id |-> "JPEG", archive |-> FALSE, spatial |-> TRUE,
       need_conversion |-> TRUE, conversion |-> "PYRTIFF"],
      [id |-> "SPECTRAL", archive |-> FALSE, spatial |-> FALSE,
       need_conversion |-> FALSE, conversion |-> "None"] }

ArchiveFormat ==
    [id |-> "ZIP", archive |-> TRUE, spatial |-> FALSE,
     need_conversion |-> FALSE, conversion |-> "None"]

SpatialReadableFormats == { f \in ImageFormats : f.spatial /\ ~f.need_conversion }

FormatIds == { f.id : f \in ImageFormats } \cup { ArchiveFormat.id }

PathSet ==
    { PendingFile, UploadDir, UploadFile, ProcessedDir, ExtractedDir, HistogramFile }
        \cup { OriginalFile(id) : id \in FormatIds }
        \cup { SpatialFile(id) : id \in FormatIds }

(***************************************************************************)
(* File system: every path is absent, a file, a directory or a symlink.    *)
(***************************************************************************)
Absent == [kind |-> "absent", target |-> NoPath]
RegularFile == [kind |-> "file", target |-> NoPath]
Directory == [kind |-> "dir", target |-> NoPath]

Symlink(target) == [kind |-> "link", target |-> target]

RECURSIVE ResolveN(_, _, _)
ResolveN(f, p, fuel) ==
    IF p = NoPath \/ fuel = 0 THEN NoPath
    ELSE IF f[p].kind = "absent" THEN NoPath
    ELSE IF f[p].kind = "link" THEN ResolveN(f, f[p].target, fuel - 1)
    ELSE p

\* The entry a path resolves to, following symlinks (NoPath: nothing there).
Resolve(f, p) == ResolveN(f, p, Cardinality(PathSet))

\* Path.exists(): follows symlinks.
Exists(f, p) == Resolve(f, p) # NoPath

(***************************************************************************)
(* Observers.  StdoutListener handles what it is given; CytomineListener   *)
(* handlers look paths up in path_uf_mapping and call the remote server,   *)
(* so a call may raise; a bare observer has no handler for any event.      *)
(***************************************************************************)
ObserverKinds == {"stdout", "cytomine", "bare"}

RECURSIVE SeqsUpTo(_, _)
SeqsUpTo(S, n) ==
    IF n = 0 THEN { <<>> }
    ELSE LET shorter == SeqsUpTo(S, n - 1)
         IN  shorter \cup { Append(s, x) : s \in { t \in shorter : Len(t) = n - 1 }, x \in S }

Ev(type, path, arg) == [type |-> type, path |-> path, arg |-> arg]

VARIABLES
    pc,            \* control point of FileImporter.run
    exc,           \* exception in flight / raised by run ("none" if none)
    raising,       \* error event to notify and exception to raise after it
    loggers,       \* self.loggers: observer kinds, in registration order
    events,        \* events the importer has passed to notify, in order
    delivered,     \* delivered[o]: events dispatched to observer o
    handled,       \* handled[o]: number of events whose handler ran on o
    prefer_copy,   \* argument of run
    pending,       \* the pending file: [exists, where]
    fs,            \* the file system
    self,          \* path attributes of the importer
    format,        \* local variable format of run
    archive,       \* local variable archive of run (TRUE: an Archive)
    integrity,     \* outcome of check_integrity per role
    convertCalls,  \* number of calls of format.convert
    spatialFormat, \* format matched for the converted file
    histogram,     \* self.histogram is set (build_histogram_file returned)
    result,        \* value returned by run
    nChildren,     \* children of the extracted collection
    registered,    \* children iterated over so far by import_collection
    signatures,    \* number of task signatures appended to tasks
    tasks,         \* Celery tasks: tasks[t] = [state, parent]
    poolSize,      \* number of worker slots of the pool
    rootInPool,    \* TRUE if this run itself executes in a worker slot
    call           \* one function, or one step of several runs, examined on its own

ctl == <<pc, exc, raising>>
obs == <<events, delivered, handled>>
params == <<loggers, prefer_copy, pending, poolSize, rootInPool, call>>
files == <<fs, self>>
image == <<format, archive, integrity, convertCalls, spatialFormat, histogram>>
coll == <<nChildren, registered, signatures, tasks>>
vars == <<ctl, obs, params, files, image, result, coll>>

NoSelf ==
    [upload_dir |-> NoPath, upload_path |-> NoPath, original_path |-> NoPath,
     spatial_path |-> NoPath, histogram_path |-> NoPath,
     processed_dir |-> NoPath, extracted_dir |-> NoPath]

NoRaising == [ev |-> Ev("None", NoPath, "-"), exc |-> "none", to |-> "none"]

NoTask == [state |-> "none", parent |-> 0]

TaskIds == 1..MaxTasks

\* No single function is under examination.
NoCall == [fn |-> "none"]

\* The importer after construction, before run is called.
InitImport ==
    /\ pc = "start"
    /\ exc = "none"
    /\ raising = NoRaising
    /\ loggers \in SeqsUpTo(ObserverKinds, MaxObservers)
    /\ events = <<>>
    /\ delivered = [o \in 1..Len(loggers) |-> <<>>]
    /\ handled = [o \in 1..Len(loggers) |-> 0]
    /\ prefer_copy \in BOOLEAN
    /\ pending \in [exists : BOOLEAN, where : {"pending_dir", "extracted", "elsewhere"}]
    /\ fs = [p \in PathSet |->
                IF p = PendingFile /\ pending.exists THEN RegularFile ELSE Absent]
    /\ self = NoSelf
    /\ format = NoFormat
    /\ archive = FALSE
    /\ integrity = [original |-> "unchecked", spatial |-> "unchecked"]
    /\ convertCalls = 0
    /\ spatialFormat = NoFormat
    /\ histogram = FALSE
    /\ result = <<>>
    /\ nChildren = 0
    /\ registered = 0
    /\ signatures = 0
    /\ tasks = [t \in TaskIds |-> NoTask]
    /\ poolSize \in 1..MaxPool
    /\ rootInPool \in BOOLEAN

Init == InitImport /\ call = NoCall

\* One importer that is never run: the state around the call of a single function.
NoImport ==
    /\ InitImport
    /\ loggers = <<>>
    /\ ~prefer_copy
    /\ pending = [exists |-> FALSE, where |-> "pending_dir"]
    /\ poolSize = 1
    /\ ~rootInPool

ImportVars ==
    <<ctl, obs, loggers, prefer_copy, pending, poolSize, rootInPool, files, image,
      result, coll>>


(***************************************************************************)
(* File helpers of the importer: the effect of a successful call.          *)
(***************************************************************************)
\* directory.mkdir()
Mkdir(f, p) == [f EXCEPT ![p] = Directory]

\* (variant: the origin is left in place whatever prefer_copy says)
Move_AlwaysCopies(f, origin, dest, copy) == [f EXCEPT ![dest] = f[origin]]

\* shutil.copy(origin, dest) if prefer_copy else shutil.move(origin, dest)
Move(f, origin, dest, copy) ==
    IF copy THEN [f EXCEPT ![dest] = f[origin]]
    ELSE [f EXCEPT ![dest] = f[origin], ![origin] = Absent]

\* (variant: the role file is written as a copy, not as a symlink)
Mksymlink_Copies(f, p, target) == [f EXCEPT ![p] = RegularFile]

\* path.symlink_to(target)
Mksymlink(f, p, target) == [f EXCEPT ![p] = Symlink(target)]

\* archive.extract(path), when it succeeds: the content is at path
Extract(f, p) == [f EXCEPT ![p] = Directory]

\* build_histogram_file(image, path, mode), when it succeeds: the file is at path
BuildHistogramFile(f, p) == [f EXCEPT ![p] = RegularFile]

\* mkdir and symlink_to raise FileExistsError on a path that is there already.
CanCreate(f, p) == f[p].kind = "absent"

(***************************************************************************)
(* notify: the loop over self.loggers.  k is the observer whose handler    *)
(* raises an exception other than AttributeError (0: none does); the loop  *)
(* stops there and the exception leaves notify.                             *)
(***************************************************************************)
\* The handlers of this observer may raise.
MayRaise(kind) == kind = "cytomine"

\* getattr(logger, method) finds a handler on this observer.
HasHandler(kind) == kind # "bare"

RaiseAt == {0} \cup { k \in 1..Len(loggers) : MayRaise(loggers[k]) }

\* Observer o is reached by the loop when the handler of observer k raises.
Reached(o, k) == k = 0 \/ o <= k

Emit(ev, k) ==
    /\ events' = Append(events, ev)
    /\ delivered' = [o \in DOMAIN delivered |->
                        IF Reached(o, k) THEN Append(delivered[o], ev) ELSE delivered[o]]
    /\ handled' = [o \in DOMAIN handled |->
                        IF Reached(o, k) /\ o # k /\ HasHandler(loggers[o])
                        THEN handled[o] + 1 ELSE handled[o]]

Goto(label) == pc' = label /\ UNCHANGED <<exc, raising>>

\* raise e, caught by the handler at label to
RaiseTo(e, to) == pc' = to /\ exc' = e /\ UNCHANGED raising

\* self.notify(ev); raise e  (the raise is caught by the handler at label to)
NotifyThenRaise(ev, e, to) ==
    /\ pc' = "notify_error"
    /\ raising' = [ev |-> ev, exc |-> e, to |-> to]
    /\ UNCHANGED exc

Terminated == pc \in {"done", "raised"}

(***************************************************************************)
(* run, lines 116-145: START_DATA_EXTRACTION, the check of the pending     *)
(* file, mkdir of the upload directory, move, symlink back to the archive. *)
(***************************************************************************)
\* the condition of lines 120-122, negated
PendingFileValid ==
    ~( (pending.where # "extracted" /\ pending.where # "pending_dir")
       \/ ~pending.exists )

LinkBack == ~prefer_copy /\ pending.where = "extracted"

StartImport ==
    /\ pc = "start"
    /\ \E k \in RaiseAt :
        /\ Emit(Ev("START_DATA_EXTRACTION", PendingFile, "-"), k)
        /\ IF k # 0
           THEN RaiseTo("HandlerError", "except") /\ UNCHANGED files
           ELSE IF ~PendingFileValid
           THEN /\ NotifyThenRaise(Ev("FILE_NOT_FOUND", PendingFile, "-"),
                                   "FilepathNotFoundProblem", "except")
                /\ UNCHANGED files
           ELSE \E fail \in {"none", "mkdir", "move", "symlink"} :
                LET made == Mkdir(fs, UploadDir)
                    moved == Move(made, PendingFile, UploadFile, prefer_copy)
                    linked == Mksymlink(moved, PendingFile, UploadFile)
                IN  /\ fail = "symlink" => LinkBack
                    /\ fail = "none" /\ LinkBack => CanCreate(moved, PendingFile)
                    /\ CASE fail = "mkdir" ->
                              /\ self' = [self EXCEPT !.upload_dir = UploadDir]
                              /\ fs' = fs
                              /\ NotifyThenRaise(Ev("FILE_ERROR", UploadDir, "OSError"),
                                                 "FileErrorProblem", "except")
                         [] fail = "move" ->
                              /\ self' = [self EXCEPT !.upload_dir = UploadDir,
                                                      !.upload_path = UploadFile]
                              /\ fs' = made
                              /\ NotifyThenRaise(Ev("FILE_NOT_MOVED", PendingFile, "OSError"),
                                                 "FileErrorProblem", "except")
                         [] fail = "symlink" ->
                              /\ self' = [self EXCEPT !.upload_dir = UploadDir,
                                                      !.upload_path = UploadFile]
                              /\ fs' = moved
                              /\ NotifyThenRaise(Ev("FILE_ERROR", PendingFile, "OSError"),
                                                 "FileErrorProblem", "except")
                         [] OTHER ->
                              /\ self' = [self EXCEPT !.upload_dir = UploadDir,
                                                      !.upload_path = UploadFile]
                              /\ fs' = IF LinkBack THEN linked ELSE moved
                              /\ Goto("moved")
    /\ UNCHANGED <<params, image, result, coll>>

\* lines 147-150
MovedPendingFile ==
    /\ pc = "moved"
    /\ \E k \in RaiseAt :
        /\ Emit(Ev("MOVED_PENDING_FILE", PendingFile, "-"), k)
        /\ IF k # 0 THEN RaiseTo("HandlerError", "except") ELSE Goto("end_extraction")
    /\ UNCHANGED <<params, files, image, result, coll>>

\* line 151
EndDataExtraction ==
    /\ pc = "end_extraction"
    /\ \E k \in RaiseAt :
        /\ Emit(Ev("END_DATA_EXTRACTION", self.upload_path, "-"), k)
        /\ IF k # 0 THEN RaiseTo("HandlerError", "except") ELSE Goto("start_detect")
    /\ UNCHANGED <<params, files, image, result, coll>>

(***************************************************************************)
(* run, lines 153-166: format detection (FormatFactory.match, then         *)
(* Archive.from_path when no format matched).                              *)
(***************************************************************************)
StartFormatDetection ==
    /\ pc = "start_detect"
    /\ \E k \in RaiseAt :
        /\ Emit(Ev("START_FORMAT_DETECTION", self.upload_path, "-"), k)
        /\ IF k # 0
           THEN RaiseTo("HandlerError", "except") /\ UNCHANGED <<format, archive>>
           ELSE \E f \in ImageFormats \cup {ArchiveFormat, NoFormat} :
                /\ format' = f
                /\ archive' = f.archive
                /\ IF f = NoFormat
                   THEN NotifyThenRaise(Ev("ERROR_NO_FORMAT", self.upload_path, "-"),
                                        "NoMatchingFormatProblem", "except")
                   ELSE Goto("end_detect")
    /\ UNCHANGED <<params, files, integrity, convertCalls, spatialFormat, histogram,
                   result, coll>>

(***************************************************************************)
(* run, lines 167-181 and 222-224: END_FORMAT_DETECTION, mkdir of the      *)
(* processed directory, the original role (a symlink to the upload when    *)
(* the file is no archive).                                                *)
(***************************************************************************)
EndFormatDetection ==
    /\ pc = "end_detect"
    /\ \E k \in RaiseAt :
        /\ Emit(Ev("END_FORMAT_DETECTION", self.upload_path, format.id), k)
        /\ IF k # 0
           THEN RaiseTo("HandlerError", "except") /\ UNCHANGED files
           ELSE \E fail \in {"none", "mkdir", "symlink"} :
                LET original == OriginalFile(format.id)
                    made == Mkdir(fs, ProcessedDir)
                    linked == Mksymlink(made, original, self.upload_path)
                IN  /\ fail = "symlink" => ~archive
                    /\ fail = "none" => CanCreate(fs, ProcessedDir)
                    /\ fail = "none" /\ ~archive => CanCreate(made, original)
                    /\ CASE fail = "mkdir" ->
                              /\ self' = [self EXCEPT !.processed_dir = ProcessedDir]
                              /\ fs' = fs
                              /\ NotifyThenRaise(Ev("FILE_ERROR", ProcessedDir, "OSError"),
                                                 "FileErrorProblem", "except")
                         [] fail = "symlink" ->
                              /\ self' = [self EXCEPT !.processed_dir = ProcessedDir,
                                                      !.original_path = original]
                              /\ fs' = made
                              /\ NotifyThenRaise(Ev("FILE_ERROR", original, "OSError"),
                                                 "FileErrorProblem", "except")
                         [] OTHER ->
                              /\ self' = [self EXCEPT !.processed_dir = ProcessedDir,
                                                      !.original_path = original]
                              /\ fs' = IF archive THEN made ELSE linked
                              /\ Goto(IF archive THEN "start_unpack" ELSE "start_integrity")
    /\ UNCHANGED <<params, image, result, coll>>


(***************************************************************************)
(* run, lines 182-216: START_UNPACKING, archive.extract, the second match  *)
(* on the extracted content: a multi-file format (move to its own original *)
(* path) or a collection (symlink extracted -> original, then the start of *)
(* import_collection, lines 372-386).                                      *)
(***************************************************************************)
\* group(tasks).apply_async(): one pending task per signature
ApplyAsync(ts, n, parent) ==
    [t \in TaskIds |->
        IF ts[t].state = "none" /\ Cardinality({u \in 1..t : ts[u].state = "none"}) <= n
        THEN [state |-> "pending", parent |-> parent]
        ELSE ts[t]]

StartUnpacking ==
    /\ pc = "start_unpack"
    /\ \E k \in RaiseAt :
        /\ Emit(Ev("START_UNPACKING", self.upload_path, "-"), k)
        /\ IF k # 0
           THEN /\ RaiseTo("HandlerError", "except")
                /\ UNCHANGED <<files, format, nChildren>>
           ELSE \E extracted \in BOOLEAN :
                IF ~extracted
                THEN /\ NotifyThenRaise(Ev("ERROR_UNPACKING", self.upload_path, "ArchiveError"),
                                        "FileErrorProblem", "except")
                     /\ UNCHANGED <<files, format, nChildren>>
                ELSE \E f \in ImageFormats \cup {NoFormat}, ok \in BOOLEAN :
                     LET unpacked == Extract(fs, self.original_path)
                         new_original == OriginalFile(f.id)
                     IN  /\ format' = f
                         /\ IF f # NoFormat
                            THEN /\ nChildren' = nChildren
                                 /\ IF ok
                                    THEN /\ fs' = Move(unpacked, self.original_path,
                                                       new_original, FALSE)
                                         /\ self' = [self EXCEPT !.original_path = new_original]
                                         /\ Goto("end_unpack")
                                    ELSE /\ fs' = unpacked
                                         /\ self' = self
                                         /\ NotifyThenRaise(
                                                Ev("FILE_NOT_MOVED", self.original_path, "OSError"),
                                                "FileErrorProblem", "except")
                            ELSE /\ self' = [self EXCEPT !.extracted_dir = ExtractedDir]
                                 /\ IF ok
                                    THEN /\ fs' = Mksymlink(unpacked, ExtractedDir,
                                                            self.original_path)
                                         /\ \E n \in 0..MaxChildren :
                                              /\ nChildren' = n
                                              /\ Goto(IF n = 0 THEN "group_get" ELSE "register")
                                    ELSE /\ fs' = unpacked
                                         /\ nChildren' = nChildren
                                         /\ NotifyThenRaise(
                                                Ev("FILE_ERROR", ExtractedDir, "OSError"),
                                                "FileErrorProblem", "except")
    /\ UNCHANGED <<params, archive, integrity, convertCalls, spatialFormat, histogram,
                   result, registered, signatures, tasks>>

\* lines 205-209
EndUnpacking ==
    /\ pc = "end_unpack"
    /\ \E k \in RaiseAt :
        /\ Emit(Ev("END_UNPACKING", self.upload_path, "single"), k)
        /\ IF k # 0
           THEN RaiseTo("HandlerError", "except") /\ UNCHANGED self
           ELSE /\ self' = [self EXCEPT !.upload_path = self.original_path]
                /\ Goto("start_integrity")
    /\ UNCHANGED <<params, fs, image, result, coll>>

(***************************************************************************)
(* import_collection, lines 386-414: one iteration of the loop over the    *)
(* children (REGISTER_FILE, then the signature, whose failure is           *)
(* swallowed), followed after the last child by group(tasks).apply_async().*)
(***************************************************************************)
\* lines 374-377: a CytomineListener is among the loggers
HasCytomine == \E o \in 1..Len(loggers) : loggers[o] = "cytomine"

RegisterChild ==
    /\ pc = "register"
    /\ \E k \in RaiseAt :
        /\ Emit(Ev("REGISTER_FILE", ExtractedDir, "child"), k)
        /\ IF k # 0
           THEN /\ RaiseTo("HandlerError", "except")
                /\ UNCHANGED <<registered, signatures, tasks>>
           ELSE \E signed \in BOOLEAN :
                LET sigs == IF signed THEN signatures + 1 ELSE signatures
                IN  \* only new_listener_from_registered_child can fail
                    /\ ~signed => HasCytomine
                    /\ registered' = registered + 1
                    /\ signatures' = sigs
                    /\ IF registered + 1 = nChildren
                       THEN /\ tasks' = ApplyAsync(tasks, sigs, 0)
                            /\ Goto("group_get")
                       ELSE /\ tasks' = tasks
                            /\ Goto("register")
    /\ UNCHANGED <<params, files, image, result, nChildren>>

(***************************************************************************)
(* The Celery side: a worker slot runs a pending task; the task (the       *)
(* function run_import on a child) returns or raises; a child that is      *)
(* itself an archive of a collection dispatches its own group and waits    *)
(* for it in its slot.                                                     *)
(***************************************************************************)
ChildrenOf(p) == { t \in TaskIds : tasks[t].state # "none" /\ tasks[t].parent = p }

\* (variant: a parent gives its slot back while it waits for its group)
HoldsSlot_NotWhileWaiting(state) == state = "running"

\* A task in this state occupies a worker slot.
HoldsSlot(state) == state \in {"running", "waiting"}

RootHoldsSlot == rootInPool /\ ~Terminated

FreeSlots ==
    poolSize - Cardinality({ t \in TaskIds : HoldsSlot(tasks[t].state) })
             - (IF RootHoldsSlot THEN 1 ELSE 0)

\* (variant: r.get() returns as soon as no task of the group has failed)
GroupSucceeded_NoneFailed(p) == \A t \in ChildrenOf(p) : tasks[t].state # "failure"

\* r.get() returns: every task of the group has succeeded.
GroupSucceeded(p) == \A t \in ChildrenOf(p) : tasks[t].state = "success"

\* r.get() re-raises the exception of a task of the group (propagate=True).
GroupFailed(p) == \E t \in ChildrenOf(p) : tasks[t].state = "failure"

UnusedTasks == { t \in TaskIds : tasks[t].state = "none" }

TaskStart(t) ==
    /\ tasks[t].state = "pending"
    /\ FreeSlots > 0
    /\ tasks' = [tasks EXCEPT ![t].state = "running"]
    /\ UNCHANGED <<ctl, obs, params, files, image, result, nChildren, registered, signatures>>

\* run_import(child): fi.run returns, or raises and the task fails.
TaskFinish(t) ==
    /\ tasks[t].state = "running"
    /\ \E outcome \in {"success", "failure"} :
        tasks' = [tasks EXCEPT ![t].state = outcome]
    /\ UNCHANGED <<ctl, obs, params, files, image, result, nChildren, registered, signatures>>

\* The child is an archive holding a collection: its own import_collection.
TaskDispatch(t) ==
    /\ tasks[t].state = "running"
    /\ tasks[t].parent = 0
    /\ \E n \in 1..Cardinality(UnusedTasks) :
        tasks' = [ApplyAsync(tasks, n, t) EXCEPT ![t].state = "waiting"]
    /\ UNCHANGED <<ctl, obs, params, files, image, result, nChildren, registered, signatures>>

\* r.get() in a child: END_UNPACKING and return, or the exception goes up.
TaskJoin(t) ==
    /\ tasks[t].state = "waiting"
    /\ \/ GroupFailed(t) /\ tasks' = [tasks EXCEPT ![t].state = "failure"]
       \/ GroupSucceeded(t) /\ tasks' = [tasks EXCEPT ![t].state = "success"]
    /\ UNCHANGED <<ctl, obs, params, files, image, result, nChildren, registered, signatures>>

\* line 383: imported = list(); nothing is appended to it before line 417
imported == <<>>

\* lines 413-417: r.get() in this run, then return imported.
GroupGet ==
    /\ pc = "group_get"
    /\ \/ GroupFailed(0) /\ RaiseTo("ChildTaskError", "except")
       \/ GroupSucceeded(0) /\ Goto("end_unpack_collection")
    /\ UNCHANGED <<obs, params, files, image, result, coll>>

\* lines 217-221
EndUnpackingCollection ==
    /\ pc = "end_unpack_collection"
    /\ \E k \in RaiseAt :
        /\ Emit(Ev("END_UNPACKING", self.upload_path, "collection"), k)
        /\ IF k # 0
           THEN RaiseTo("HandlerError", "except") /\ UNCHANGED result
           ELSE /\ result' = imported
                /\ Goto("done")
    /\ UNCHANGED <<params, files, image, coll>>


(***************************************************************************)
(* run, lines 226-241: integrity check of the original, then the choice    *)
(* between deploy_spatial and NotImplementedError.                         *)
(***************************************************************************)
\* (variant: the error list is ignored)
IntegrityFailed_Never(n_errors) == FALSE

\* len(errors) > 0, for the error list check_integrity returned
IntegrityFailed(n_errors) == n_errors > 0

IntegrityOutcome(n_errors) == IF n_errors > 0 THEN "errors" ELSE "ok"

StartIntegrityCheck ==
    /\ pc = "start_integrity"
    /\ \E k \in RaiseAt :
        /\ Emit(Ev("START_INTEGRITY_CHECK", self.original_path, "-"), k)
        /\ IF k # 0
           THEN RaiseTo("HandlerError", "except") /\ UNCHANGED integrity
           ELSE \E n_errors \in 0..1 :
                /\ integrity' = [integrity EXCEPT !.original = IntegrityOutcome(n_errors)]
                /\ IF IntegrityFailed(n_errors)
                   THEN NotifyThenRaise(
                            Ev("ERROR_INTEGRITY_CHECK", self.original_path, "errors"),
                            "ImageParsingProblem", "except")
                   ELSE Goto("end_integrity")
    /\ UNCHANGED <<params, files, format, archive, convertCalls, spatialFormat, histogram,
                   result, coll>>

EndIntegrityCheck ==
    /\ pc = "end_integrity"
    /\ \E k \in RaiseAt :
        /\ Emit(Ev("END_INTEGRITY_CHECK", self.original_path, "-"), k)
        /\ IF k # 0 THEN RaiseTo("HandlerError", "except")
           ELSE IF format.spatial THEN Goto("start_spatial_deploy")
           ELSE RaiseTo("NotImplementedError", "except")
    /\ UNCHANGED <<params, files, image, result, coll>>

(***************************************************************************)
(* deploy_spatial, lines 258-320.                                          *)
(***************************************************************************)
\* (variant: the conversion branch is never taken)
NeedConversion_Never(f) == FALSE

\* line 260
NeedConversion(f) == f.need_conversion

\* lines 259-265 and 311-316
StartSpatialDeploy ==
    /\ pc = "start_spatial_deploy"
    /\ \E k \in RaiseAt :
        /\ Emit(Ev("START_SPATIAL_DEPLOY", self.original_path, "-"), k)
        /\ IF k # 0
           THEN RaiseTo("HandlerError", "except") /\ UNCHANGED files
           ELSE IF NeedConversion(format)
           THEN /\ self' = [self EXCEPT !.spatial_path = SpatialFile(format.conversion)]
                /\ fs' = fs
                /\ Goto("start_conversion")
           ELSE \E ok \in BOOLEAN :
                LET spatial == SpatialFile(format.id)
                IN  /\ self' = [self EXCEPT !.spatial_path = spatial]
                    /\ IF ok
                       THEN /\ CanCreate(fs, spatial)
                            /\ fs' = Mksymlink(fs, spatial, self.original_path)
                            /\ Goto("end_spatial_deploy")
                       ELSE /\ fs' = fs
                            /\ NotifyThenRaise(Ev("FILE_ERROR", spatial, "OSError"),
                                               "FileErrorProblem", "except")
    /\ UNCHANGED <<params, image, result, coll>>

\* line 272: not r or not self.spatial_path.exists()
ConversionFailed(r, there) == ~r \/ ~there

\* lines 266-277, inside the try of line 262
StartConversion ==
    /\ pc = "start_conversion"
    /\ \E k \in RaiseAt :
        /\ Emit(Ev("START_CONVERSION", self.spatial_path, "-"), k)
        /\ IF k # 0
           THEN /\ RaiseTo("HandlerError", "conv_except")
                /\ UNCHANGED <<fs, convertCalls>>
           ELSE /\ convertCalls' = convertCalls + 1
                /\ \E raised \in BOOLEAN, r \in BOOLEAN, written \in BOOLEAN :
                     LET after == IF written
                                  THEN [fs EXCEPT ![self.spatial_path] = RegularFile]
                                  ELSE fs
                     IN  /\ fs' = after
                         /\ raised => ~r
                         /\ IF raised THEN RaiseTo("ConvertError", "conv_except")
                            ELSE IF ConversionFailed(r, Exists(after, self.spatial_path))
                            THEN NotifyThenRaise(
                                     Ev("ERROR_CONVERSION", self.spatial_path, "-"),
                                     "FormatConversionProblem", "conv_except")
                            ELSE Goto("end_conversion")
    /\ UNCHANGED <<params, self, format, archive, integrity, spatialFormat, histogram,
                   result, coll>>

\* lines 278-283: except Exception as e
ConversionExcept ==
    /\ pc = "conv_except"
    /\ \E k \in RaiseAt :
        /\ Emit(Ev("ERROR_CONVERSION", self.spatial_path, exc), k)
        /\ IF k # 0 THEN RaiseTo("HandlerError", "except")
           ELSE RaiseTo("FormatConversionProblem", "except")
    /\ UNCHANGED <<params, files, image, result, coll>>

\* (variant: the converted file is deployed without being checked)
NextAfterConversion_Unchecked == "end_spatial_deploy"

\* lines 287-288: after END_CONVERSION comes the check of the converted file
NextAfterConversion == "start_detect_spatial"

\* line 285
EndConversion ==
    /\ pc = "end_conversion"
    /\ \E k \in RaiseAt :
        /\ Emit(Ev("END_CONVERSION", self.spatial_path, "-"), k)
        /\ IF k # 0 THEN RaiseTo("HandlerError", "except")
           ELSE Goto(NextAfterConversion)
    /\ UNCHANGED <<params, files, image, result, coll>>

\* lines 288-292
StartSpatialFormatDetection ==
    /\ pc = "start_detect_spatial"
    /\ \E k \in RaiseAt :
        /\ Emit(Ev("START_FORMAT_DETECTION", self.spatial_path, "-"), k)
        /\ IF k # 0
           THEN RaiseTo("HandlerError", "except") /\ UNCHANGED spatialFormat
           ELSE \E f \in SpatialReadableFormats \cup {NoFormat} :
                /\ spatialFormat' = f
                /\ IF f = NoFormat
                   THEN NotifyThenRaise(Ev("ERROR_NO_FORMAT", self.spatial_path, "-"),
                                        "NoMatchingFormatProblem", "except")
                   ELSE Goto("end_detect_spatial")
    /\ UNCHANGED <<params, files, format, archive, integrity, convertCalls, histogram,
                   result, coll>>

\* lines 293-298
EndSpatialFormatDetection ==
    /\ pc = "end_detect_spatial"
    /\ \E k \in RaiseAt :
        /\ Emit(Ev("END_FORMAT_DETECTION", self.spatial_path, spatialFormat.id), k)
        /\ IF k # 0 THEN RaiseTo("HandlerError", "except")
           ELSE Goto("start_integrity_spatial")
    /\ UNCHANGED <<params, files, image, result, coll>>

\* lines 300-308
StartSpatialIntegrityCheck ==
    /\ pc = "start_integrity_spatial"
    /\ \E k \in RaiseAt :
        /\ Emit(Ev("START_INTEGRITY_CHECK", self.spatial_path, "-"), k)
        /\ IF k # 0
           THEN RaiseTo("HandlerError", "except") /\ UNCHANGED integrity
           ELSE \E n_errors \in 0..1 :
                /\ integrity' = [integrity EXCEPT !.spatial = IntegrityOutcome(n_errors)]
                /\ IF IntegrityFailed(n_errors)
                   THEN NotifyThenRaise(
                            Ev("ERROR_INTEGRITY_CHECK", self.spatial_path, "errors"),
                            "ImageParsingProblem", "except")
                   ELSE Goto("end_integrity_spatial")
    /\ UNCHANGED <<params, files, format, archive, convertCalls, spatialFormat, histogram,
                   result, coll>>

\* line 309
EndSpatialIntegrityCheck ==
    /\ pc = "end_integrity_spatial"
    /\ \E k \in RaiseAt :
        /\ Emit(Ev("END_INTEGRITY_CHECK", self.spatial_path, "-"), k)
        /\ IF k # 0 THEN RaiseTo("HandlerError", "except")
           ELSE Goto("end_spatial_deploy")
    /\ UNCHANGED <<params, files, image, result, coll>>

\* lines 318-320, then line 243 and line 323
EndSpatialDeploy ==
    /\ pc = "end_spatial_deploy"
    /\ \E k \in RaiseAt :
        /\ Emit(Ev("END_SPATIAL_DEPLOY", self.spatial_path, "-"), k)
        /\ IF k # 0
           THEN RaiseTo("HandlerError", "except") /\ UNCHANGED self
           ELSE /\ self' = [self EXCEPT !.histogram_path = HistogramFile]
                /\ Goto("start_histogram")
    /\ UNCHANGED <<params, fs, image, result, coll>>

(***************************************************************************)
(* deploy_histogram, lines 322-343.                                        *)
(***************************************************************************)
StartHistogramDeploy ==
    /\ pc = "start_histogram"
    /\ \E k \in RaiseAt :
        /\ Emit(Ev("START_HISTOGRAM_DEPLOY", self.histogram_path, "-"), k)
        /\ IF k # 0
           THEN RaiseTo("HandlerError", "except") /\ UNCHANGED <<fs, histogram>>
           ELSE \E outcome \in {"built", "file_error", "other_error"} :
                CASE outcome = "built" ->
                       /\ fs' = BuildHistogramFile(fs, self.histogram_path)
                       /\ histogram' = TRUE
                       /\ Goto("end_histogram")
                  [] outcome = "file_error" ->
                       /\ UNCHANGED <<fs, histogram>>
                       /\ NotifyThenRaise(
                              Ev("ERROR_HISTOGRAM", self.histogram_path, "FileNotFoundError"),
                              "FileErrorProblem", "except")
                  [] OTHER ->
                       /\ UNCHANGED <<fs, histogram>>
                       /\ RaiseTo("HistogramError", "except")
    /\ UNCHANGED <<params, self, format, archive, integrity, convertCalls, spatialFormat,
                   result, coll>>

\* lines 339-343
EndHistogramDeploy ==
    /\ pc = "end_histogram"
    /\ \E k \in RaiseAt :
        /\ Emit(Ev("END_HISTOGRAM_DEPLOY", self.histogram_path, "-"), k)
        /\ IF k # 0 THEN RaiseTo("HandlerError", "except")
           ELSE Goto("end_success")
    /\ UNCHANGED <<params, files, image, result, coll>>

\* lines 245-250
EndSuccessfulImport ==
    /\ pc = "end_success"
    /\ \E k \in RaiseAt :
        /\ Emit(Ev("END_SUCCESSFUL_IMPORT", self.upload_path, "-"), k)
        /\ IF k # 0
           THEN RaiseTo("HandlerError", "except") /\ UNCHANGED result
           ELSE /\ result' = <<self.upload_path>>
                /\ Goto("done")
    /\ UNCHANGED <<params, files, image, coll>>

(***************************************************************************)
(* Error paths.                                                            *)
(***************************************************************************)
\* self.notify(<error event>) followed by raise, as in lines 123-124,
\* 165-166, 188-192, 231-235, 273-277, 291-292, 304-308, 333-337, 349-350,
\* 359-360 and 369-370.
NotifyError ==
    /\ pc = "notify_error"
    /\ \E k \in RaiseAt :
        /\ Emit(raising.ev, k)
        /\ pc' = raising.to
        /\ exc' = IF k # 0 THEN "HandlerError" ELSE raising.exc
        /\ raising' = NoRaising
    /\ UNCHANGED <<params, files, image, result, coll>>

\* (variant: except Exception as e: raise e, without the notification)
Except_Silent ==
    /\ pc = "except"
    /\ pc' = "raised"
    /\ UNCHANGED <<exc, raising, obs, params, files, image, result, coll>>

\* lines 251-256: except Exception as e: notify FILE_ERROR, raise e
Except ==
    /\ pc = "except"
    /\ \E k \in RaiseAt :
        /\ Emit(Ev("FILE_ERROR", self.upload_path, exc), k)
        /\ pc' = "raised"
        /\ exc' = IF k # 0 THEN "HandlerError" ELSE exc
        /\ UNCHANGED raising
    /\ UNCHANGED <<params, files, image, result, coll>>

Next ==
    \/ StartImport
    \/ MovedPendingFile
    \/ EndDataExtraction
    \/ StartFormatDetection
    \/ EndFormatDetection
    \/ StartUnpacking
    \/ EndUnpacking
    \/ RegisterChild
    \/ \E t \in TaskIds : TaskStart(t)
    \/ \E t \in TaskIds : TaskFinish(t)
    \/ \E t \in TaskIds : TaskDispatch(t)
    \/ \E t \in TaskIds : TaskJoin(t)
    \/ GroupGet
    \/ EndUnpackingCollection
    \/ StartIntegrityCheck
    \/ EndIntegrityCheck
    \/ StartSpatialDeploy
    \/ StartConversion
    \/ ConversionExcept
    \/ EndConversion
    \/ StartSpatialFormatDetection
    \/ EndSpatialFormatDetection
    \/ StartSpatialIntegrityCheck
    \/ EndSpatialIntegrityCheck
    \/ EndSpatialDeploy
    \/ StartHistogramDeploy
    \/ EndHistogramDeploy
    \/ EndSuccessfulImport
    \/ NotifyError
    \/ Except

Spec == Init /\ [][Next]_vars

(***************************************************************************)
(* Image.check_integrity (pims/files/image.py, lines 262-291), on its own: *)
(* the loop over the required attributes, one iteration per step.  The     *)
(* input is the set of attributes whose access raises, lazy_mode and       *)
(* metadata.                                                               *)
(***************************************************************************)
attributes ==
    << "width", "height", "depth", "duration", "n_channels", "pixel_type",
       "physical_size_x", "physical_size_y", "physical_size_z", "frame_rate",
       "description", "acquisition_datetime", "channels", "objective",
       "microscope", "associated_thumb", "associated_label", "associated_macro",
       "raw_metadata", "pyramid" >>

\* The attributes the model goes through: the first MaxAttributes of them.
Attributes == SubSeq(attributes, 1, MaxAttributes)

AttributeSet == { Attributes[i] : i \in 1..Len(Attributes) }

\* The exception raised by the access to an attribute.
ErrorOf(attr) == <<"raised by", attr>>

InitCheckIntegrity ==
    /\ NoImport
    /\ call \in [fn : {"check_integrity"}, raises : SUBSET AttributeSet,
                 lazy_mode : BOOLEAN, metadata : BOOLEAN, i : {1},
                 errors : {<<>>}, evaluated : {<<>>}, returned : {FALSE}]

\* (variant: lazy_mode is ignored)
ReturnsAtError_Never(lazy_mode) == FALSE

\* lines 289-290: if lazy_mode: return errors
ReturnsAtError(lazy_mode) == lazy_mode

\* lines 284-290: one iteration of the loop
CheckAttribute ==
    /\ ~call.returned
    /\ call.metadata
    /\ call.i <= Len(Attributes)
    /\ LET attr == Attributes[call.i]
           visited == [call EXCEPT !.evaluated = Append(@, attr)]
       IN  IF attr \in call.raises
           THEN LET noted == [visited EXCEPT !.errors = Append(@, <<attr, ErrorOf(attr)>>)]
                IN  IF ReturnsAtError(call.lazy_mode)
                    THEN call' = [noted EXCEPT !.returned = TRUE]
                    ELSE call' = [noted EXCEPT !.i = @ + 1]
           ELSE call' = [visited EXCEPT !.i = @ + 1]
    /\ UNCHANGED ImportVars

\* line 291: return errors (after the loop, or at once when metadata is False)
ReturnErrors ==
    /\ ~call.returned
    /\ ~call.metadata \/ call.i > Len(Attributes)
    /\ call' = [call EXCEPT !.returned = TRUE]
    /\ UNCHANGED ImportVars

NextCheckIntegrity == CheckAttribute \/ ReturnErrors

SpecCheckIntegrity == InitCheckIntegrity /\ [][NextCheckIntegrity]_vars

(***************************************************************************)
(* Several runs at the same time, on their own: the move-in of each        *)
(* (run, lines 116-151), the creation of the role files, and the except of *)
(* run, on one shared file root.  A run is [pc, name, exc, cytomine,       *)
(* collided]; existing is the set of upload directories of the file root,  *)
(* owner[n] the run whose mkdir created directory n (0: it was there       *)
(* before), writers[n] the runs that wrote into directory n.               *)
(***************************************************************************)
Importers == 1..MaxImporters

\* values of unique_name_generator()
DirNames == 1..MaxNames

InitConcurrent ==
    /\ NoImport
    /\ call \in [fn : {"run"},
                 existing : SUBSET DirNames,
                 owner : {[n \in DirNames |-> 0]},
                 writers : {[n \in DirNames |-> {}]},
                 imp : [Importers ->
                          [pc : {"start"}, name : {0}, exc : {"none"},
                           cytomine : BOOLEAN, collided : {FALSE}]]]

\* The exception that leaves self.notify(...); raise e: that of a handler of
\* the CytomineListener when it raises, e otherwise.
AfterNotify(i, e) == IF call.imp[i].cytomine THEN {e, "HandlerError"} ELSE {e}

\* lines 116-131: START_DATA_EXTRACTION, then the name of the upload directory
UniqueName(i) ==
    /\ call.imp[i].pc = "start"
    /\ \/ \E n \in DirNames :
            call' = [call EXCEPT !.imp[i].pc = "mkdir", !.imp[i].name = n]
       \/ /\ call.imp[i].cytomine
          /\ call' = [call EXCEPT !.imp[i].pc = "except",
                                  !.imp[i].exc = "HandlerError"]
    /\ UNCHANGED ImportVars

\* line 132 and lines 345-350: directory.mkdir() raises FileExistsError on a
\* directory that is there already
MkdirUploadDir(i) ==
    /\ call.imp[i].pc = "mkdir"
    /\ LET n == call.imp[i].name
       IN  IF n \in call.existing
           THEN \E e \in AfterNotify(i, "FileErrorProblem") :
                    call' = [call EXCEPT !.imp[i].pc = "except",
                                         !.imp[i].exc = e,
                                         !.imp[i].collided = TRUE]
           ELSE call' = [call EXCEPT !.existing = @ \cup {n},
                                     !.owner[n] = i,
                                     !.imp[i].pc = "move"]
    /\ UNCHANGED ImportVars

\* lines 134-151 and 352-360: the pending file is written into the directory
MoveToUploadDir(i) ==
    /\ call.imp[i].pc = "move"
    /\ LET n == call.imp[i].name
       IN  \/ call' = [call EXCEPT !.writers[n] = @ \cup {i},
                                   !.imp[i].pc = "deploy"]
           \/ \E e \in AfterNotify(i, "FileErrorProblem") :
                 call' = [call EXCEPT !.imp[i].pc = "except", !.imp[i].exc = e]
    /\ UNCHANGED ImportVars

\* lines 153-250: the processed directory and the role files of this run
DeployRoles(i) ==
    /\ call.imp[i].pc = "deploy"
    /\ LET n == call.imp[i].name
       IN  \/ call' = [call EXCEPT !.writers[n] = @ \cup {i},
                                   !.imp[i].pc = "done"]
           \/ \E e \in AfterNotify(i, "FileErrorProblem") :
                 call' = [call EXCEPT !.writers[n] = @ \cup {i},
                                      !.imp[i].pc = "except", !.imp[i].exc = e]
    /\ UNCHANGED ImportVars

\* lines 251-256
ExceptOfRun(i) ==
    /\ call.imp[i].pc = "except"
    /\ \E e \in AfterNotify(i, call.imp[i].exc) :
          call' = [call EXCEPT !.imp[i].pc = "raised", !.imp[i].exc = e]
    /\ UNCHANGED ImportVars

NextConcurrent ==
    \/ \E i \in Importers : UniqueName(i)
    \/ \E i \in Importers : MkdirUploadDir(i)
    \/ \E i \in Importers : MoveToUploadDir(i)
    \/ \E i \in Importers : DeployRoles(i)
    \/ \E i \in Importers : ExceptOfRun(i)

SpecConcurrent == InitConcurrent /\ [][NextConcurrent]_vars

(***************************************************************************)
(* A histogram request (pims/api/histograms.py), on its own:               *)
(* HistogramConfig, parse_n_bins, _histogram_binning, histogram_formatter. *)
(* An array is a sequence; index i of the code is element i + 1 here.      *)
(***************************************************************************)
RECURSIVE Pow2(_)
Pow2(n) == IF n = 0 THEN 1 ELSE 2 * Pow2(n - 1)

\* a & b, for a >= 0 and b >= -1 (-1 has every bit set)
RECURSIVE BitAnd(_, _)
BitAnd(a, b) ==
    IF a = 0 \/ b = 0 THEN 0
    ELSE IF b = -1 THEN a
    ELSE 2 * BitAnd(a \div 2, b \div 2) + (IF a % 2 = 1 /\ b % 2 = 1 THEN 1 ELSE 0)

RECURSIVE SumSeq(_)
SumSeq(a) == IF a = <<>> THEN 0 ELSE Head(a) + SumSeq(Tail(a))

\* a[from:to], with 0 <= from and to <= len(a)
Slice(a, from, to) == IF to <= from THEN <<>> ELSE SubSeq(a, from + 1, to)

\* len(in_image.value_range) (image.py, lines 107-112)
ValueRangeLen(significant_bits) == (Pow2(significant_bits) - 1) + 1

\* The first non-zero bin of a histogram that has one.
argmin_nonzero(hist) ==
    CHOOSE i \in 0..(Len(hist) - 1) :
        hist[i + 1] # 0 /\ \A j \in 0..(i - 1) : hist[j + 1] = 0

\* The last non-zero bin of a histogram that has one.
argmax_nonzero(hist) ==
    CHOOSE i \in 0..(Len(hist) - 1) :
        hist[i + 1] # 0 /\ \A j \in (i + 1)..(Len(hist) - 1) : hist[j + 1] = 0

\* The histograms stored for an image: one bin per value of the value range,
\* and at least one pixel counted.
StoredHistograms(significant_bits) ==
    { h \in [1..ValueRangeLen(significant_bits) -> 0..MaxCount] :
        \E i \in DOMAIN h : h[i] # 0 }

\* The bounds stored with a histogram: its first and last non-zero bin.
StoredBounds(hist) == <<argmin_nonzero(hist), argmax_nonzero(hist)>>

\* values of the query parameter n_bins
NBinsRequests == 0..(Pow2(MaxBits) + 1)

NoHistogramResponse ==
    [histogram |-> <<>>, first_bin |-> -1, last_bin |-> -1,
     minimum |-> -1, maximum |-> -1, n_bins |-> -1]

InitHistogram ==
    /\ NoImport
    /\ \E bits \in 1..MaxBits :
         \E h \in StoredHistograms(bits) :
            call \in [fn : {"histogram"}, significant_bits : {bits}, hist : {h},
                      bounds : {StoredBounds(h)}, requested : NBinsRequests,
                      full_range : BOOLEAN, stage : {"request"}, via : {"none"},
                      n_bins : {0}, binned : {<<>>},
                      response : {NoHistogramResponse}]

\* (variant: the requested number of bins is kept as it is)
parse_n_bins_Unbounded(n_bins, hist_len) == n_bins

\* lines 91-92
parse_n_bins(n_bins, hist_len) == IF n_bins <= hist_len THEN n_bins ELSE hist_len

\* line 96: hist.shape[-1] % n_bins != 0
BinningRejected(hist, n_bins) == Len(hist) % n_bins # 0

\* (variant: reshape((-1, n_bins)).sum(axis=0), bins taken with a stride)
HistogramBinning_Strided(hist, n_bins) ==
    [i \in 1..n_bins |->
        SumSeq([j \in 1..(Len(hist) \div n_bins) |-> hist[(j - 1) * n_bins + i]])]

\* line 101: hist.reshape((n_bins, -1)).sum(axis=1)
HistogramBinning(hist, n_bins) ==
    [i \in 1..n_bins |->
        SumSeq([j \in 1..(Len(hist) \div n_bins) |->
                   hist[(i - 1) * (Len(hist) \div n_bins) + j]])]

\* (variant: hist[bin_bounds[0]:bin_bounds[1]], the last bin is dropped)
Window_Exclusive(hist, bin_bounds) == Slice(hist, bin_bounds[1], bin_bounds[2])

\* lines 108 and 113: hist[bin_bounds[0]:bin_bounds[1] + 1]
Window(hist, bin_bounds) == Slice(hist, bin_bounds[1], bin_bounds[2] + 1)

\* lines 105-113: the histogram at the requested number of bins
Binned(hist, n_bins) ==
    IF n_bins = Len(hist) THEN hist ELSE HistogramBinning(hist, n_bins)

\* lines 106 and 111
BinBounds(hist, bounds, n_bins) ==
    IF n_bins = Len(hist) THEN bounds
    ELSE <<argmin_nonzero(Binned(hist, n_bins)), argmax_nonzero(Binned(hist, n_bins))>>

\* lines 104-124, when _histogram_binning does not raise
histogram_formatter(hist, bounds, n_bins, full_range) ==
    LET bin_bounds == BinBounds(hist, bounds, n_bins)
    IN  [histogram |-> IF full_range THEN Binned(hist, n_bins)
                       ELSE Window(Binned(hist, n_bins), bin_bounds),
         first_bin |-> bin_bounds[1],
         last_bin |-> bin_bounds[2],
         minimum |-> bounds[1],
         maximum |-> bounds[2],
         n_bins |-> n_bins]

\* lines 127-128: (n & (n - 1) == 0) and n != 0
is_power_of_2(n) == BitAnd(n, n - 1) = 0 /\ n # 0

\* histogram_formatter is entered with this number of bins
Formatted(n_bins, via) ==
    IF n_bins # Len(call.hist) /\ BinningRejected(call.hist, n_bins)
    THEN call' = [call EXCEPT !.stage = "bad_request", !.via = via,
                              !.n_bins = n_bins]
    ELSE call' = [call EXCEPT
                    !.stage = "response", !.via = via, !.n_bins = n_bins,
                    !.binned = Binned(call.hist, n_bins),
                    !.response = histogram_formatter(call.hist, call.bounds, n_bins,
                                                     call.full_range)]

\* lines 131-152: HistogramConfig.__init__
HistogramConfig ==
    /\ call.stage = "request"
    /\ IF is_power_of_2(call.requested)
       THEN call' = [call EXCEPT !.stage = "config"]
       ELSE call' = [call EXCEPT !.stage = "bad_request", !.via = "endpoint"]
    /\ UNCHANGED ImportVars

\* lines 159-177 (and 200-230, 270-310): the endpoint, after its dependencies
show_image_histogram ==
    /\ call.stage = "config"
    /\ Formatted(parse_n_bins(call.requested, ValueRangeLen(call.significant_bits)),
                 "endpoint")
    /\ UNCHANGED ImportVars

\* lines 104-124: histogram_formatter called on its own with n_bins >= 1
FormatHistogram ==
    /\ call.stage = "request"
    /\ call.requested >= 1
    /\ Formatted(call.requested, "function")
    /\ UNCHANGED ImportVars

NextHistogram == HistogramConfig \/ show_image_histogram \/ FormatHistogram

SpecHistogram == InitHistogram /\ [][NextHistogram]_vars

(***************************************************************************)
(* The normalized pyramid of an image (Image.normalized_pyramid, image.py  *)
(* lines 154-156, which calls pims.formats.utils.pyramid).  The synthesis  *)
(* follows section 4.3: starting from (width, height), both dimensions are *)
(* halved (floor) until both are below min_tier_dim, one tier per step,    *)
(* the base included.  A tier is <<width, height>>.                        *)
(***************************************************************************)
MinTierDims == 2..MaxMinTierDim

InitPyramid ==
    /\ NoImport
    /\ call \in [fn : {"normalized_pyramid"}, width : 1..MaxDim, height : 1..MaxDim,
                 min_tier_dim : MinTierDims, w : {0}, h : {0}, tiers : {<<>>},
                 stage : {"call"}]

\* "until both are below min_tier_dim"
BelowMinimum(w, h, min_tier_dim) == w < min_tier_dim /\ h < min_tier_dim

\* "halve both dimensions (integer division, floor)"
Halved(d) == d \div 2

\* image.py lines 154-156: normalized_pyramid(self.width, self.height);
\* the base is recorded as the first tier
InsertBaseTier ==
    /\ call.fn = "normalized_pyramid"
    /\ call.stage = "call"
    /\ call' = [call EXCEPT !.w = call.width, !.h = call.height,
                            !.tiers = <<<<call.width, call.height>>>>,
                            !.stage = "halving"]
    /\ UNCHANGED ImportVars

\* one halving step, recorded as one tier
InsertHalvedTier ==
    /\ call.fn = "normalized_pyramid"
    /\ call.stage = "halving"
    /\ ~BelowMinimum(call.w, call.h, call.min_tier_dim)
    /\ call' = [call EXCEPT !.w = Halved(call.w), !.h = Halved(call.h),
                            !.tiers = Append(call.tiers,
                                             <<Halved(call.w), Halved(call.h)>>)]
    /\ UNCHANGED ImportVars

ReturnPyramid ==
    /\ call.fn = "normalized_pyramid"
    /\ call.stage = "halving"
    /\ BelowMinimum(call.w, call.h, call.min_tier_dim)
    /\ call' = [call EXCEPT !.stage = "returned"]
    /\ UNCHANGED ImportVars

NextPyramid == InsertBaseTier \/ InsertHalvedTier \/ ReturnPyramid

SpecPyramid == InitPyramid /\ [][NextPyramid]_vars

(***************************************************************************)
(* Content negotiation (pims/api/utils/mimetype.py).  A mime type is a     *)
(* record [major, minor]; '*' is [major |-> "*", minor |-> ""].            *)
(***************************************************************************)
Mime(major, minor) == [major |-> major, minor |-> minor]

\* line 60
VISUALISATION_MIMETYPES ==
    <<Mime("image", "webp"), Mime("image", "jpg"), Mime("image", "jpeg"),
      Mime("image", "png"), Mime("image", "apng")>>

\* line 61
PROCESSING_MIMETYPES ==
    <<Mime("image", "png"), Mime("image", "apng"), Mime("image", "jpg"),
      Mime("image", "jpeg"), Mime("image", "webp")>>

\* the mime types an entry of the header names; '*/*' is not a valid one
HeaderMimetypes ==
    {Mime("*", ""), Mime("*", "*"), Mime("image", "*"), Mime("image", "png"),
     Mime("image", "jpeg"), Mime("image", "webp"), Mime("text", "html")}

\* lines 63-74: '*', 'major/*' or 'major/minor'
valid_mime_type(mimetype) ==
    \/ mimetype = Mime("*", "")
    \/ mimetype.major # "*" /\ mimetype.minor # ""

\* lines 113-125: AcceptableType.pattern and AcceptableType.matches
matches(acceptable_type, mimetype) ==
    IF acceptable_type.mimetype = Mime("*", "")
    THEN valid_mime_type(mimetype)
    ELSE IF acceptable_type.mimetype.minor = "*"
    THEN mimetype.major = acceptable_type.mimetype.major
            /\ mimetype.minor \notin {"", "*"}
    ELSE mimetype = acceptable_type.mimetype

\* lines 133-138: the entries that are valid mime types, in header order
RECURSIVE AcceptableTypes(_)
AcceptableTypes(header) ==
    IF header = <<>> THEN <<>>
    ELSE IF valid_mime_type(Head(header).mimetype)
    THEN <<Head(header)>> \o AcceptableTypes(Tail(header))
    ELSE AcceptableTypes(Tail(header))

\* x put behind the entries of a sorted list that weigh at least as much
RECURSIVE InsertByWeight(_, _)
InsertByWeight(x, sorted) ==
    IF sorted = <<>> THEN <<x>>
    ELSE IF Head(sorted).weight >= x.weight
    THEN <<Head(sorted)>> \o InsertByWeight(x, Tail(sorted))
    ELSE <<x>> \o sorted

\* line 140: sorted(mime_types, reverse=True), a stable sort on __lt__
RECURSIVE SortedByWeight(_, _)
SortedByWeight(mime_types, sorted) ==
    IF mime_types = <<>> THEN sorted
    ELSE SortedByWeight(Tail(mime_types), InsertByWeight(Head(mime_types), sorted))

\* lines 128-140
parse_accept_header(header) == SortedByWeight(AcceptableTypes(header), <<>>)

NoMimetype == Mime("none", "")

\* lines 151-156: the first available type some acceptable type matches
RECURSIVE BestOf(_, _)
BestOf(acceptable_types, available_types) ==
    IF available_types = <<>> THEN NoMimetype
    ELSE IF \E k \in 1..Len(acceptable_types) :
                matches(acceptable_types[k], Head(available_types))
    THEN Head(available_types)
    ELSE BestOf(acceptable_types, Tail(available_types))

InitMimetype ==
    /\ NoImport
    /\ \E n \in 0..MaxAccept :
         call \in [fn : {"get_best_mimetype"},
                   header : [1..n -> [mimetype : HeaderMimetypes,
                                      weight : 0..MaxWeight]],
                   available_types : {VISUALISATION_MIMETYPES, PROCESSING_MIMETYPES},
                   acceptable_types : {<<>>}, stage : {"call"},
                   returned : {NoMimetype}]

\* line 149
ParseAcceptHeader ==
    /\ call.fn = "get_best_mimetype"
    /\ call.stage = "call"
    /\ call' = [call EXCEPT !.acceptable_types = parse_accept_header(call.header),
                            !.stage = "parsed"]
    /\ UNCHANGED ImportVars

\* lines 151-156
ReturnBestMimetype ==
    /\ call.fn = "get_best_mimetype"
    /\ call.stage = "parsed"
    /\ call' = [call EXCEPT !.returned = BestOf(call.acceptable_types,
                                                call.available_types),
                            !.stage = "returned"]
    /\ UNCHANGED ImportVars

NextMimetype == ParseAcceptHeader \/ ReturnBestMimetype

SpecMimetype == InitMimetype /\ [][NextMimetype]_vars

(***************************************************************************)
(* Request parameters (pims/api/utils/image_parameter.py):                 *)
(* parse_intensity_bounds and get_zslice_indexes.  An intensity is a       *)
(* record [kind, value]: an int, or one of the string constants.           *)
(***************************************************************************)
Int_(v) == [kind |-> "int", value |-> v]

\* below 0, admissible, above every admissible intensity, and the constants
IntensityValues ==
    {Int_(-1), Int_(1), Int_(Pow2(MaxBits + 1))}
        \cup [kind : {"NONE", "AUTO_IMAGE", "STRETCH_IMAGE"}, value : {0}]

Repeat(x, n) == [k \in 1..n |-> x]

\* lines 313-316 and 318-321
Expanded(intensities, bound_default, n_out_channels) ==
    IF Len(intensities) = 0 THEN Repeat(Int_(bound_default), n_out_channels)
    ELSE IF Len(intensities) = 1 THEN Repeat(intensities[1], n_out_channels)
    ELSE intensities

\* lines 323-343; `intensity` of line 330 is the loop variable of lines 345
\* and 348, which holds bound_value during the call; significant_bits <= 8
\* of line 335 is max_allowed_intensity <= 255; stat is
\* image.channel_stats(c)[bound_kind]
parse_intensity(bound_value, bound_default, stat, max_allowed_intensity, allow_none) ==
    IF bound_value.kind = "int"
    THEN IF bound_value.value < 0 THEN Int_(0)
         ELSE IF bound_value.value > max_allowed_intensity
         THEN Int_(max_allowed_intensity)
         ELSE bound_value
    ELSE IF allow_none /\ bound_value.kind = "NONE" THEN Int_(bound_default)
    ELSE IF bound_value.kind = "AUTO_IMAGE"
    THEN IF max_allowed_intensity <= 255 THEN Int_(bound_default) ELSE Int_(stat)
    ELSE IF bound_value.kind = "STRETCH_IMAGE" THEN Int_(stat)
    ELSE Int_(bound_default)

Min2(a, b) == IF a <= b THEN a ELSE b

\* lines 345-346 and 348-349: enumerate(zip(out_channels, intensities)) assigns
\* the first min(len(out_channels), len(intensities)) elements in place
ParsedInPlace(intensities, n_out_channels, bound_default, stat, max_allowed_intensity, allow_none) ==
    [idx \in 1..Len(intensities) |->
        IF idx <= Min2(n_out_channels, Len(intensities))
        THEN parse_intensity(intensities[idx], bound_default, stat,
                             max_allowed_intensity, allow_none)
        ELSE intensities[idx]]

\* lines 285-351
parse_intensity_bounds(c) ==
    LET max_allowed_intensity == Pow2(c.significant_bits) - 1
        n_out_channels == c.n_out_channels
    IN  <<ParsedInPlace(Expanded(c.min_intensities, 0, n_out_channels),
                        n_out_channels, 0, c.stats.minimum,
                        max_allowed_intensity, c.allow_none),
          ParsedInPlace(Expanded(c.max_intensities, max_allowed_intensity,
                                 n_out_channels),
                        n_out_channels, max_allowed_intensity, c.stats.maximum,
                        max_allowed_intensity, c.allow_none)>>

\* round(n / 2) of Python 3: a half is rounded to the even neighbour
RoundOfHalf(n) ==
    IF n % 2 = 0 THEN n \div 2
    ELSE IF (n \div 2) % 2 = 0 THEN n \div 2 ELSE (n \div 2) + 1

\* OrderedSet(list): duplicates dropped, first occurrences kept in order
RECURSIVE OrderedSet(_, _)
OrderedSet(list, seen) ==
    IF list = <<>> THEN <<>>
    ELSE IF Head(list) \in seen THEN OrderedSet(Tail(list), seen)
    ELSE <<Head(list)>> \o OrderedSet(Tail(list), seen \cup {Head(list)})

\* [idx for idx in plane_indexes if 0 <= idx < n_planes]
RECURSIVE InRange(_, _)
InRange(plane_indexes, n_planes) ==
    IF plane_indexes = <<>> THEN <<>>
    ELSE IF 0 <= Head(plane_indexes) /\ Head(plane_indexes) < n_planes
    THEN <<Head(plane_indexes)>> \o InRange(Tail(plane_indexes), n_planes)
    ELSE InRange(Tail(plane_indexes), n_planes)

\* lines 137-175, for planes given as indexes
parse_planes(planes_to_parse, n_planes, default) ==
    IF Len(planes_to_parse) = 0 THEN OrderedSet(default, {})
    ELSE OrderedSet(InRange(planes_to_parse, n_planes), {})

\* lines 188-195
get_zslice_indexes(depth, planes) ==
    parse_planes(planes, depth, <<RoundOfHalf(depth)>>)

InitImageParameter ==
    /\ NoImport
    /\ \/ \E n \in 0..MaxIntensities, m \in 0..MaxIntensities :
            call \in [fn : {"parse_intensity_bounds"},
                      significant_bits : {MaxBits},
                      n_out_channels : 0..MaxChannels,
                      min_intensities : [1..n -> IntensityValues],
                      max_intensities : [1..m -> IntensityValues],
                      stats : {[minimum |-> 0, maximum |-> 1],
                               [minimum |-> 1, maximum |-> 1]},
                      allow_none : BOOLEAN,
                      stage : {"call"}, returned : {<<>>}]
       \/ \E n \in 0..MaxPlanes :
            call \in [fn : {"get_zslice_indexes"}, depth : 1..MaxDepth,
                      planes : [1..n -> (-1)..MaxDepth],
                      stage : {"call"}, returned : {<<>>}]

\* lines 285-351
ParseIntensityBounds ==
    /\ call.fn = "parse_intensity_bounds"
    /\ call.stage = "call"
    /\ call' = [call EXCEPT !.stage = "returned",
                            !.returned = parse_intensity_bounds(call)]
    /\ UNCHANGED ImportVars

\* lines 188-195
GetZsliceIndexes ==
    /\ call.fn = "get_zslice_indexes"
    /\ call.stage = "call"
    /\ call' = [call EXCEPT !.stage = "returned",
                            !.returned = get_zslice_indexes(call.depth, call.planes)]
    /\ UNCHANGED ImportVars

NextImageParameter == ParseIntensityBounds \/ GetZsliceIndexes

SpecImageParameter == InitImageParameter /\ [][NextImageParameter]_vars


(***************************************************************************)
(* Reading the event stream.                                               *)
(***************************************************************************)
EventIndexes == 1..Len(events)

Count(type) == Cardinality({ i \in EventIndexes : events[i].type = type })

Emitted(type) == \E i \in EventIndexes : events[i].type = type

\* A marker <<type, stem>> selects the events of that type whose path has
\* that stem ("*": any path).
Is(e, marker) == e.type = marker[1] /\ (marker[2] = "*" \/ e.path[1] = marker[2])

Seen(marker) == \E i \in EventIndexes : Is(events[i], marker)

\* Every event selected by later is preceded by one selected by earlier.
After(later, earlier) ==
    \A j \in EventIndexes :
        Is(events[j], later) => \E i \in 1..(j - 1) : Is(events[i], earlier)

(***************************************************************************)
(* C1: every pipeline step that starts emits one START event and then      *)
(* exactly one closing event, END on success or the step's ERROR event on  *)
(* failure.  Stated here as: no step ever has more closing events than     *)
(* START events, and when run returns normally every START has its closing *)
(* event.                                                                  *)
(***************************************************************************)
PipelineSteps ==
    { [start |-> "START_DATA_EXTRACTION",
       closing |-> {"END_DATA_EXTRACTION", "FILE_NOT_FOUND"}],
      [start |-> "START_FORMAT_DETECTION",
       closing |-> {"END_FORMAT_DETECTION", "ERROR_NO_FORMAT"}],
      [start |-> "START_UNPACKING",
       closing |-> {"END_UNPACKING", "ERROR_UNPACKING"}],
      [start |-> "START_CONVERSION",
       closing |-> {"END_CONVERSION", "ERROR_CONVERSION"}],
      [start |-> "START_INTEGRITY_CHECK",
       closing |-> {"END_INTEGRITY_CHECK", "ERROR_INTEGRITY_CHECK"}],
      [start |-> "START_SPATIAL_DEPLOY",
       closing |-> {"END_SPATIAL_DEPLOY"}],
      [start |-> "START_HISTOGRAM_DEPLOY",
       closing |-> {"END_HISTOGRAM_DEPLOY", "ERROR_HISTOGRAM"}] }

Closings(step) ==
    Cardinality({ i \in EventIndexes : events[i].type \in step.closing })

C1_OneClosingPerStart ==
    \A step \in PipelineSteps :
        /\ Closings(step) <= Count(step.start)
        /\ pc = "done" => Closings(step) = Count(step.start)

(***************************************************************************)
(* C2: a failing observer never aborts or alters the import: run never     *)
(* ends by raising the exception of an observer handler, and no step is    *)
(* reported as failed because of one.                                      *)
(***************************************************************************)
C2_ObserverFailureHarmless ==
    /\ Terminated => exc # "HandlerError"
    /\ \A i \in EventIndexes : events[i].arg # "HandlerError"

(***************************************************************************)
(* C3: notify delivers each event to every registered observer, in         *)
(* registration order, so all observers see the same ordered event stream. *)
(***************************************************************************)
C3_EveryObserverSeesEveryEvent ==
    \A o \in DOMAIN delivered : delivered[o] = events

(***************************************************************************)
(* C4: a successful import of a single-file format that needs conversion   *)
(* emits, in this relative order, START_DATA_EXTRACTION,                   *)
(* MOVED_PENDING_FILE, END_FORMAT_DETECTION carrying the detected format,  *)
(* START_CONVERSION, END_CONVERSION, END_INTEGRITY_CHECK,                  *)
(* END_HISTOGRAM_DEPLOY, END_SUCCESSFUL_IMPORT, and its SPATIAL file is a  *)
(* converted file, not an alias of ORIGINAL.                               *)
(***************************************************************************)
ConversionScenario ==
    << "START_DATA_EXTRACTION", "MOVED_PENDING_FILE", "END_FORMAT_DETECTION",
       "START_CONVERSION", "END_CONVERSION", "END_INTEGRITY_CHECK",
       "END_HISTOGRAM_DEPLOY", "END_SUCCESSFUL_IMPORT" >>

ScenarioMatch(e, n) ==
    /\ e.type = ConversionScenario[n]
    /\ ConversionScenario[n] = "END_FORMAT_DETECTION" => e.arg = format.id

\* Number of leading elements of the scenario found, in order, in events[i..].
RECURSIVE ScenarioPrefix(_, _)
ScenarioPrefix(i, n) ==
    IF n > Len(ConversionScenario) THEN Len(ConversionScenario)
    ELSE IF i > Len(events) THEN n - 1
    ELSE IF ScenarioMatch(events[i], n) THEN ScenarioPrefix(i + 1, n + 1)
    ELSE ScenarioPrefix(i + 1, n)

SuccessfulConversionImport == pc = "done" /\ ~archive /\ format.need_conversion

C4_ConversionScenario ==
    SuccessfulConversionImport =>
        /\ ScenarioPrefix(1, 1) = Len(ConversionScenario)
        /\ fs[self.spatial_path].kind = "file"
        /\ self.spatial_path # self.original_path
        /\ Resolve(fs, self.spatial_path) # Resolve(fs, self.original_path)

C4_Witness == SuccessfulConversionImport /\ Emitted("END_SUCCESSFUL_IMPORT")

(***************************************************************************)
(* C5: for a format that needs no conversion, no conversion event is ever  *)
(* emitted, format.convert is never called, and the SPATIAL path is        *)
(* created as an alias of the ORIGINAL path: both resolve to the same      *)
(* bytes.                                                                  *)
(***************************************************************************)
NoConversionFormat == format # NoFormat /\ ~format.need_conversion

C5_NoConversionAlias ==
    NoConversionFormat =>
        /\ ~Emitted("START_CONVERSION")
        /\ ~Emitted("END_CONVERSION")
        /\ ~Emitted("ERROR_CONVERSION")
        /\ convertCalls = 0
        /\ (self.spatial_path # NoPath /\ fs[self.spatial_path].kind # "absent") =>
              /\ fs[self.spatial_path] = Symlink(self.original_path)
              /\ Exists(fs, self.spatial_path)
              /\ Resolve(fs, self.spatial_path) = Resolve(fs, self.original_path)

C5_Witness ==
    /\ NoConversionFormat
    /\ pc = "done"
    /\ Emitted("END_SUCCESSFUL_IMPORT")
    /\ fs[self.spatial_path].kind = "link"


(***************************************************************************)
(* C6 (as stated): the steps run in the order move-in, format detection,   *)
(* archive expansion, conversion, integrity check, histogram build, each   *)
(* starting only after the previous one succeeded; when conversion is      *)
(* needed no integrity check starts before the conversion has finished;    *)
(* the histogram build starts only after every integrity check has passed. *)
(***************************************************************************)
OriginalStem == "processed/original"
SpatialStem == "processed/spatial"
UploadStem == "upload_dir/name"

\* The part of the order that does not involve the conversion.
C6_StepOrder ==
    /\ After(<<"MOVED_PENDING_FILE", "*">>, <<"START_DATA_EXTRACTION", "*">>)
    /\ After(<<"START_FORMAT_DETECTION", UploadStem>>, <<"END_DATA_EXTRACTION", "*">>)
    /\ After(<<"START_UNPACKING", "*">>, <<"END_FORMAT_DETECTION", UploadStem>>)
    /\ After(<<"START_INTEGRITY_CHECK", OriginalStem>>, <<"END_FORMAT_DETECTION", UploadStem>>)
    /\ archive => After(<<"START_INTEGRITY_CHECK", OriginalStem>>, <<"END_UNPACKING", "*">>)
    /\ After(<<"START_CONVERSION", "*">>, <<"END_FORMAT_DETECTION", UploadStem>>)
    /\ archive => After(<<"START_CONVERSION", "*">>, <<"END_UNPACKING", "*">>)
    /\ Seen(<<"START_HISTOGRAM_DEPLOY", "*">>) =>
          /\ Seen(<<"END_INTEGRITY_CHECK", OriginalStem>>)
          /\ format.need_conversion =>
                Seen(<<"END_CONVERSION", "*">>) /\ Seen(<<"END_INTEGRITY_CHECK", SpatialStem>>)
          /\ Count("END_INTEGRITY_CHECK") = Count("START_INTEGRITY_CHECK")
          /\ ~Emitted("ERROR_INTEGRITY_CHECK")

C6_NoIntegrityCheckBeforeConversion ==
    /\ C6_StepOrder
    /\ format.need_conversion =>
          After(<<"START_INTEGRITY_CHECK", "*">>, <<"END_CONVERSION", "*">>)

(***************************************************************************)
(* C6 (amended): the same order, except that the integrity check of the    *)
(* ORIGINAL file runs before the conversion starts; only the integrity     *)
(* check of the converted SPATIAL file waits for the end of the            *)
(* conversion (and for the format detection of the converted file).        *)
(***************************************************************************)
C6_OriginalCheckedBeforeConversion ==
    /\ C6_StepOrder
    /\ After(<<"START_CONVERSION", "*">>, <<"END_INTEGRITY_CHECK", OriginalStem>>)
    /\ After(<<"START_INTEGRITY_CHECK", SpatialStem>>, <<"END_CONVERSION", "*">>)
    /\ After(<<"START_INTEGRITY_CHECK", SpatialStem>>, <<"END_FORMAT_DETECTION", SpatialStem>>)

C6_Witness ==
    /\ pc = "done"
    /\ format.need_conversion
    /\ Seen(<<"START_HISTOGRAM_DEPLOY", "*">>)
    /\ Seen(<<"START_INTEGRITY_CHECK", SpatialStem>>)

(***************************************************************************)
(* C7: whenever END_SUCCESSFUL_IMPORT is emitted, the processed directory  *)
(* exists, the ORIGINAL file exists and passed its integrity check, the    *)
(* SPATIAL file exists and is an alias of ORIGINAL or a converted file     *)
(* whose format detection and integrity check succeeded, and the histogram *)
(* file was built.                                                         *)
(***************************************************************************)
C7_SuccessMeansAllRolesValid ==
    Emitted("END_SUCCESSFUL_IMPORT") =>
        /\ fs[ProcessedDir].kind = "dir"
        /\ self.processed_dir = ProcessedDir
        /\ Exists(fs, self.original_path)
        /\ integrity.original = "ok"
        /\ Exists(fs, self.spatial_path)
        /\ \/ fs[self.spatial_path] = Symlink(self.original_path)
           \/ /\ fs[self.spatial_path].kind = "file"
              /\ convertCalls = 1
              /\ spatialFormat \in SpatialReadableFormats
              /\ integrity.spatial = "ok"
        /\ histogram
        /\ self.histogram_path = HistogramFile

C7_Witness ==
    /\ pc = "done"
    /\ Emitted("END_SUCCESSFUL_IMPORT")
    /\ result = <<self.upload_path>>

(***************************************************************************)
(* C8: in a collection import the terminal failure of a child does not     *)
(* make the run of the parent raise: the parent never ends, or heads for   *)
(* its end, with the exception of a child task.                            *)
(***************************************************************************)
C8_ChildFailureIsolated == exc # "ChildTaskError"

(***************************************************************************)
(* C9: the parent emits END_UNPACKING (is_collection=True) only after      *)
(* every child task it dispatched has finished; none is pending or running *)
(* any more.                                                               *)
(***************************************************************************)
CollectionReported ==
    \E i \in EventIndexes :
        events[i].type = "END_UNPACKING" /\ events[i].arg = "collection"

C9_ParentWaitsForEveryChild ==
    CollectionReported =>
        /\ Cardinality(ChildrenOf(0)) = signatures
        /\ \A t \in ChildrenOf(0) : tasks[t].state \in {"success", "failure"}

C9_Witness ==
    /\ CollectionReported
    /\ pc = "done"
    /\ Cardinality(ChildrenOf(0)) >= 2

(***************************************************************************)
(* C10: when every worker slot is held by a parent import blocked in       *)
(* r.get(), the pool is deadlocked: no task is ever scheduled or changes   *)
(* state again, and every blocked parent stays blocked, so none reaches    *)
(* DONE or FAILED.  Such a state is reachable.                             *)
(***************************************************************************)
TaskBlocked(t) ==
    tasks[t].state = "waiting" /\ ~GroupFailed(t) /\ ~GroupSucceeded(t)

RootBlocked == pc = "group_get" /\ ~GroupFailed(0) /\ ~GroupSucceeded(0)

SlotTasks == { t \in TaskIds : tasks[t].state \in {"running", "waiting"} }

RootInSlot == rootInPool /\ pc \notin {"done", "raised"}

PoolSaturated ==
    /\ Cardinality(SlotTasks) + (IF RootInSlot THEN 1 ELSE 0) = poolSize
    /\ \A t \in SlotTasks : TaskBlocked(t)
    /\ RootInSlot => RootBlocked

C10_SaturatedPoolDeadlocks ==
    [][PoolSaturated => (tasks' = tasks /\ PoolSaturated')]_vars

C10_Witness ==
    /\ PoolSaturated
    /\ \E t \in TaskIds : tasks[t].state = "pending"

(***************************************************************************)
(* C11: run returns, for a single image, a list holding exactly the one    *)
(* imported path; for a collection, a list with one result per child that  *)
(* was dispatched for import, so a non-empty list whenever a child was     *)
(* dispatched.                                                             *)
(***************************************************************************)
Returned == pc = "done"

C11_ResultPerImport ==
    Returned =>
        IF CollectionReported
        THEN Len(result) = Cardinality(ChildrenOf(0))
        ELSE result = <<self.upload_path>> /\ self.upload_path # NoPath

(***************************************************************************)
(* C12: the type of the error raised by run identifies the failure class.  *)
(* NoMatchingFormatProblem: only when the uploaded file was identified by  *)
(* no format and is no archive.  ImageParsingProblem or                    *)
(* FormatConversionProblem: only when an identified file failed an         *)
(* integrity check or its conversion.  FileErrorProblem: only for a        *)
(* failure of the environment (mkdir, move, alias, archive extraction,     *)
(* histogram file).                                                        *)
(***************************************************************************)
Raised == pc = "raised"

\* The event reports a failed mkdir, move, symlink, extraction or histogram file.
EnvironmentFailure(e) ==
    \/ e.type \in {"FILE_ERROR", "FILE_NOT_MOVED"} /\ e.arg = "OSError"
    \/ e.type = "ERROR_UNPACKING" /\ e.arg = "ArchiveError"
    \/ e.type = "ERROR_HISTOGRAM" /\ e.arg = "FileNotFoundError"

\* format.convert was called and raised, returned False or wrote no file.
ConvertFailed ==
    /\ convertCalls > 0
    /\ \E i \in EventIndexes :
          events[i].type = "ERROR_CONVERSION" /\ events[i].arg \in {"-", "ConvertError"}

C12_ErrorTypeIdentifiesClass ==
    Raised =>
        /\ exc = "NoMatchingFormatProblem" => format = NoFormat /\ ~archive
        /\ exc = "ImageParsingProblem" =>
              /\ format # NoFormat
              /\ integrity.original = "errors" \/ integrity.spatial = "errors"
        /\ exc = "FormatConversionProblem" => format # NoFormat /\ ConvertFailed
        /\ exc = "FileErrorProblem" =>
              \E i \in EventIndexes : EnvironmentFailure(events[i])

(***************************************************************************)
(* C13: whenever run raises, at least one error event has been delivered   *)
(* to the observers before the exception reaches the caller, and every     *)
(* error event of the run carries the non-null path of the file that was   *)
(* being processed.                                                        *)
(***************************************************************************)
ErrorEventTypes ==
    { "FILE_NOT_FOUND", "FILE_ERROR", "FILE_NOT_MOVED", "ERROR_NO_FORMAT",
      "ERROR_UNPACKING", "ERROR_INTEGRITY_CHECK", "ERROR_CONVERSION",
      "ERROR_HISTOGRAM" }

HasErrorEvent(stream) ==
    \E i \in 1..Len(stream) : stream[i].type \in ErrorEventTypes

C13_ErrorAnnouncedWithPath ==
    /\ Raised =>
          /\ HasErrorEvent(events)
          /\ \A o \in DOMAIN delivered : HasErrorEvent(delivered[o])
    /\ \A i \in EventIndexes :
          events[i].type \in ErrorEventTypes => events[i].path # NoPath

(***************************************************************************)
(* C14: if the pending file does not exist, or is neither directly in the  *)
(* pending directory nor a child of an extracted archive, run emits        *)
(* FILE_NOT_FOUND and raises FilepathNotFoundProblem without creating an   *)
(* upload directory and without moving or copying any file; otherwise      *)
(* move-in proceeds.                                                       *)
(***************************************************************************)
\* Nothing was created, moved or copied since the construction of the importer.
FilesUntouched ==
    /\ \A p \in PathSet \ {PendingFile} : fs[p] = Absent
    /\ fs[PendingFile] = (IF pending.exists THEN RegularFile ELSE Absent)

C14_InvalidPendingFileRejected ==
    /\ ~PendingFileValid => FilesUntouched
    /\ (~PendingFileValid /\ Terminated) =>
          /\ Raised
          /\ exc = "FilepathNotFoundProblem"
          /\ Emitted("FILE_NOT_FOUND")
    /\ (PendingFileValid /\ Terminated) =>
          /\ ~Emitted("FILE_NOT_FOUND")
          /\ exc # "FilepathNotFoundProblem"
          /\ self.upload_dir = UploadDir

(***************************************************************************)
(* C15 (as stated): after a successful run with prefer_copy false the      *)
(* pending file is no longer present at its source location, also when it  *)
(* is a child of an extracted archive; with prefer_copy true the source    *)
(* file is still present and unchanged.                                    *)
(***************************************************************************)
C15_SourceGoneUnlessCopy ==
    Returned =>
        /\ ~prefer_copy => fs[PendingFile] = Absent
        /\ prefer_copy => fs[PendingFile] = RegularFile

(***************************************************************************)
(* C15 (amended): after a successful run with prefer_copy false the file   *)
(* itself is in the upload directory and no longer at its source location; *)
(* nothing is left there for a file of the pending directory, while for a  *)
(* child of an extracted archive the source path is now a symlink to the   *)
(* uploaded file.  With prefer_copy true the source file is still present  *)
(* and unchanged.                                                          *)
(***************************************************************************)
C15_MovedAndLinkedBack ==
    Returned =>
        /\ fs[UploadFile] = RegularFile
        /\ (~prefer_copy /\ pending.where # "extracted") => fs[PendingFile] = Absent
        /\ (~prefer_copy /\ pending.where = "extracted") =>
              /\ fs[PendingFile] = Symlink(UploadFile)
              /\ Resolve(fs, PendingFile) = UploadFile
        /\ prefer_copy => fs[PendingFile] = RegularFile

C15_Witness ==
    /\ Returned
    /\ ~prefer_copy
    /\ pending.where = "extracted"
    /\ fs[PendingFile].kind = "link"
    /\ Emitted("MOVED_PENDING_FILE")

(***************************************************************************)
(* C16 (as stated): in every single-image import that reaches the          *)
(* histogram step the integrity check has run once on ORIGINAL and once on *)
(* SPATIAL, whether SPATIAL was converted or aliased, and a non-empty      *)
(* error list from either check emits ERROR_INTEGRITY_CHECK, raises        *)
(* ImageParsingProblem and ends the import.                                *)
(***************************************************************************)
Checks(stem) ==
    Cardinality({ i \in EventIndexes :
                    Is(events[i], <<"START_INTEGRITY_CHECK", stem>>) })

ReachedHistogram == Seen(<<"START_HISTOGRAM_DEPLOY", "*">>)

IntegrityErrors == integrity.original = "errors" \/ integrity.spatial = "errors"

\* The import is on one of its error paths, or has raised.
Ending == pc \in {"notify_error", "except", "raised"}

RECURSIVE EntriesFrom(_, _)
EntriesFrom(raises, i) ==
    IF i > Len(Attributes) THEN <<>>
    ELSE IF Attributes[i] \in raises
    THEN <<<<Attributes[i], ErrorOf(Attributes[i])>>>> \o EntriesFrom(raises, i + 1)
    ELSE EntriesFrom(raises, i + 1)

\* Index of the first raising attribute (only used when there is one).
FirstRaising(raises) ==
    CHOOSE i \in 1..Len(Attributes) :
        /\ Attributes[i] \in raises
        /\ \A j \in 1..(i - 1) : Attributes[j] \notin raises

ReturnedWithMetadata ==
    call.fn = "check_integrity" /\ call.returned /\ call.metadata

C17_CheckIntegrityErrors ==
    ReturnedWithMetadata =>
        /\ ~call.lazy_mode =>
              /\ call.errors = EntriesFrom(call.raises, 1)
              /\ call.evaluated = Attributes
        /\ call.lazy_mode =>
              /\ Len(call.errors) <= 1
              /\ IF call.raises = {}
                 THEN call.evaluated = Attributes
                 ELSE LET first == FirstRaising(call.raises)
                      IN  /\ call.errors = <<<<Attributes[first], ErrorOf(Attributes[first])>>>>
                          /\ call.evaluated = SubSeq(Attributes, 1, first)
        /\ call.errors = <<>> <=> call.raises = {}

C17_Witness ==
    /\ ReturnedWithMetadata
    /\ call.lazy_mode
    /\ Cardinality(call.raises) >= 2
    /\ Len(call.errors) = 1
    /\ Len(call.evaluated) < Len(Attributes)

(***************************************************************************)
(* C18: any failure of the histogram build (histogram file already there,  *)
(* spatial source unreadable, or any other error raised by the build)      *)
(* makes run emit ERROR_HISTOGRAM and raise FileErrorProblem;              *)
(* END_HISTOGRAM_DEPLOY and END_SUCCESSFUL_IMPORT are then not emitted.    *)
(***************************************************************************)
\* build_histogram_file was called and raised.
BuildFailed ==
    \/ exc = "HistogramError"
    \/ raising.ev.type = "ERROR_HISTOGRAM"
    \/ Emitted("ERROR_HISTOGRAM")
    \/ \E i \in EventIndexes : events[i].arg = "HistogramError"

C18_HistogramFailureReported ==
    BuildFailed =>
        /\ ~Emitted("END_HISTOGRAM_DEPLOY")
        /\ ~Emitted("END_SUCCESSFUL_IMPORT")
        /\ pc # "notify_error" => Emitted("ERROR_HISTOGRAM")
        /\ Raised => exc = "FileErrorProblem"

(***************************************************************************)
(* C19: after an import that fails, no role file whose producing step did  *)
(* not complete successfully is reachable by role lookup (which tests that *)
(* the role path exists): when the conversion fails, or the converted file *)
(* matches no spatial format, or the spatial integrity check fails, no     *)
(* file is left at the SPATIAL role path.                                  *)
(***************************************************************************)
\* check_representation_existence: the role path exists
RoleReachable(p) == p # NoPath /\ Exists(fs, p)

SpatialDeployed == Emitted("END_SPATIAL_DEPLOY")

C19_NoRoleFileAfterFailure ==
    Raised =>
        /\ ~SpatialDeployed => ~RoleReachable(self.spatial_path)
        /\ ~histogram => ~RoleReachable(self.histogram_path)

(***************************************************************************)
(* C20: for any interleaving of concurrently running imports, no two       *)
(* imports ever write into the same upload directory: each import only     *)
(* writes into a directory that its own mkdir call created, and an import  *)
(* whose generated upload directory name already exists fails with         *)
(* FileErrorProblem instead of reusing the existing directory.             *)
(***************************************************************************)
ConcurrentRuns == call.fn = "run"

OneWriterPerDirectory ==
    \A n \in DirNames :
        /\ Cardinality(call.writers[n]) <= 1
        /\ \A i \in call.writers[n] : call.owner[n] = i

ExistingDirectoryNotReused ==
    \A i \in Importers :
        call.imp[i].collided =>
            /\ call.imp[i].pc \in {"except", "raised"}
            /\ \A n \in DirNames : i \notin call.writers[n]

CollisionRaisesFileError ==
    \A i \in Importers :
        call.imp[i].collided => call.imp[i].exc = "FileErrorProblem"

C20_OneWriterPerUploadDir ==
    ConcurrentRuns =>
        /\ OneWriterPerDirectory
        /\ ExistingDirectoryNotReused
        /\ CollisionRaisesFileError


(***************************************************************************)
(* Histogram requests (SpecHistogram)                                      *)
(***************************************************************************)
\* histogram_formatter was entered, with call.n_bins bins
FormatterEntered == call.fn = "histogram" /\ call.n_bins >= 1

HistogramResponse == call.fn = "histogram" /\ call.stage = "response"

\* the sum of the raw bins [from, to)
RawCount(from, to) == SumSeq(Slice(call.hist, from, to))

\* C21: binning a raw histogram of length L into n_bins: when n_bins divides
\* L, output bin i is the sum of the L / n_bins contiguous raw bins
\* [i * L / n_bins, (i + 1) * L / n_bins), the total count is preserved, and
\* the window first_bin..last_bin returned with full_range = false still sums
\* to the total of the raw histogram; when n_bins does not divide L the
\* request is rejected as a bad request and no histogram is returned.
C21_BinningPreservesCounts ==
    FormatterEntered =>
        LET L == Len(call.hist)
            n == call.n_bins
        IN  IF L % n = 0
            THEN /\ call.stage = "response"
                 /\ Len(call.binned) = n
                 /\ \A i \in 0..(n - 1) :
                       call.binned[i + 1] =
                           RawCount(i * (L \div n), (i + 1) * (L \div n))
                 /\ SumSeq(call.binned) = SumSeq(call.hist)
                 /\ ~call.full_range =>
                       /\ call.response.histogram =
                              Slice(call.binned, call.response.first_bin,
                                    call.response.last_bin + 1)
                       /\ SumSeq(call.response.histogram) = SumSeq(call.hist)
            ELSE /\ call.stage = "bad_request"
                 /\ call.response = NoHistogramResponse

\* two non-empty raw bins were merged and a zero bin was cut from the window
C21_Witness ==
    /\ HistogramResponse
    /\ call.n_bins < Len(call.hist)
    /\ ~call.full_range
    /\ Len(call.response.histogram) < call.n_bins
    /\ \E i \in 1..call.n_bins : call.binned[i] > MaxCount

C23_FullRangeBins ==
    (HistogramResponse /\ call.via = "endpoint" /\ call.full_range) =>
        /\ call.response.first_bin = 0
        /\ call.response.last_bin = Pow2(call.significant_bits) - 1

\* n is a power of two (of the sizes a request can name)
IsPowerOfTwo(n) == \E k \in 0..(MaxBits + 1) : n = Pow2(k)

EndpointAnswered ==
    /\ call.fn = "histogram"
    /\ call.via = "endpoint"
    /\ call.stage \in {"response", "bad_request"}

PyramidReturned == call.fn = "normalized_pyramid" /\ call.stage = "returned"

\* C25: if the base width or the base height is already below
\* min_tier_dim, the normalized pyramid has exactly one tier (the base).
C25_OneTierIfEitherBelow ==
    (PyramidReturned /\ (call.width < call.min_tier_dim
                            \/ call.height < call.min_tier_dim)) =>
        Len(call.tiers) = 1

\* C26: in every normalized pyramid, for all widths and heights >= 1, tier 0
\* has the full-resolution width and height, each following tier has the
\* floor-halved width and height of the tier before it, widths and heights
\* are strictly decreasing with the level, and every tier has width >= 1 and
\* height >= 1.
C26_TiersDecreaseAndStayPositive ==
    PyramidReturned =>
        /\ call.tiers[1] = <<call.width, call.height>>
        /\ \A l \in 1..(Len(call.tiers) - 1) :
              /\ call.tiers[l + 1][1] = call.tiers[l][1] \div 2
              /\ call.tiers[l + 1][2] = call.tiers[l][2] \div 2
              /\ call.tiers[l + 1][1] < call.tiers[l][1]
              /\ call.tiers[l + 1][2] < call.tiers[l][2]
        /\ \A l \in 1..Len(call.tiers) :
              call.tiers[l][1] >= 1 /\ call.tiers[l][2] >= 1


(***************************************************************************)
(* Content negotiation (SpecMimetype)                                      *)
(***************************************************************************)
\* the valid entries of the header that match some available type
MatchingEntries ==
    { k \in 1..Len(call.header) :
        /\ valid_mime_type(call.header[k].mimetype)
        /\ \E t \in 1..Len(call.available_types) :
              matches(call.header[k], call.available_types[t]) }

\* C27: get_best_mimetype returns a supported type that is matched by an
\* acceptable type of the header whose weight is maximal among the
\* acceptable types that match some supported type, and returns None exactly
\* when no acceptable type of the header matches any supported type.
C27_BestWeightWins ==
    (call.fn = "get_best_mimetype" /\ call.stage = "returned") =>
        /\ call.returned = NoMimetype <=> MatchingEntries = {}
        /\ call.returned # NoMimetype =>
              /\ \E t \in 1..Len(call.available_types) :
                    call.available_types[t] = call.returned
              /\ \E k \in MatchingEntries :
                    /\ matches(call.header[k], call.returned)
                    /\ \A j \in MatchingEntries :
                          call.header[j].weight <= call.header[k].weight


(***************************************************************************)
(* Request parameters (SpecImageParameter)                                 *)
(***************************************************************************)
\* C28: parse_intensity_bounds returns two lists, of minimum and of maximum
\* intensities, whose length is the number of output channels, for every
\* length of the given lists (empty, one element, or any other length).
C28_OneBoundPerOutputChannel ==
    (call.fn = "parse_intensity_bounds" /\ call.stage = "returned") =>
        /\ Len(call.returned) = 2
        /\ Len(call.returned[1]) = call.n_out_channels
        /\ Len(call.returned[2]) = call.n_out_channels

\* C29: when no z-slice is requested, get_zslice_indexes returns exactly one
\* index, the median focal plane: for every depth >= 1 it is in
\* [0, depth - 1] and equals floor((depth - 1) / 2) or ceil((depth - 1) / 2).
C29_DefaultIsMedianPlane ==
    (call.fn = "get_zslice_indexes" /\ call.stage = "returned"
        /\ call.planes = <<>>) =>
        /\ Len(call.returned) = 1
        /\ 0 <= call.returned[1]
        /\ call.returned[1] <= call.depth - 1
        /\ \/ call.returned[1] = (call.depth - 1) \div 2
           \/ call.returned[1] = call.depth \div 2


(***************************************************************************)
(* The endings of run (Spec)                                               *)
(***************************************************************************)
\* no observer of this run has a handler that raises
QuietObservers == \A o \in 1..Len(loggers) : ~MayRaise(loggers[o])

LastEvent == events[Len(events)]

SingleImageReturn ==
    /\ Returned
    /\ events # <<>>
    /\ LastEvent.type = "END_SUCCESSFUL_IMPORT"
    /\ result = <<self.upload_path>>

CollectionReturn ==
    /\ Returned
    /\ events # <<>>
    /\ LastEvent.type = "END_UNPACKING"
    /\ LastEvent.arg = "collection"
    /\ result = imported

RaisedAfterFileError ==
    /\ Raised
    /\ events # <<>>
    /\ LastEvent.type = "FILE_ERROR"
    /\ exc # "none"

C30_EndingState ==
    /\ Terminated =>
          \/ SingleImageReturn /\ ~CollectionReturn /\ ~RaisedAfterFileError
          \/ CollectionReturn /\ ~SingleImageReturn /\ ~RaisedAfterFileError
          \/ RaisedAfterFileError /\ ~SingleImageReturn /\ ~CollectionReturn
    /\ Count("END_SUCCESSFUL_IMPORT") <= 1
    /\ ~(Emitted("END_SUCCESSFUL_IMPORT") /\ Emitted("FILE_ERROR"))

\* C30: with observers whose handlers do not raise, every execution of run
\* ends in exactly one of three ways and emits no event afterwards: a single
\* image return whose last event is END_SUCCESSFUL_IMPORT, a collection
\* return whose last event is END_UNPACKING with is_collection = True, or a
\* raised exception whose last event is FILE_ERROR; END_SUCCESSFUL_IMPORT is
\* emitted at most once and never in a run that also emits FILE_ERROR.
C30_ThreeEndings ==
    /\ [](QuietObservers => C30_EndingState)
    /\ [][(QuietObservers /\ Terminated) =>
             (Terminated' /\ UNCHANGED <<events, pc, exc, result>>)]_vars

\* a failed mkdir, move or symlink: FILE_ERROR is notified by the helper and
\* once more, as the last event, by the except of run
C30_Witness ==
    /\ QuietObservers
    /\ loggers # <<>>
    /\ RaisedAfterFileError
    /\ Count("FILE_ERROR") = 2

=============================================================================
